---------------------------- MODULE Spec2Model ----------------------------
(***************************************************************************)
(* Signaling server of godot-simple-webrtc (server/main.py): the registry  *)
(* of rooms, peer sessions and lobby subscriptions, the per-connection     *)
(* protocol loop with its handlers, and the stale room reaper.             *)
(*                                                                         *)
(* The server is one asyncio event loop.  A coroutine runs until it        *)
(* suspends: at a receive, at a network send (after the write), at a       *)
(* gather over the send tasks of a fan-out, and at the registry lock when  *)
(* the lock is held.  The variable current names the coroutine that is     *)
(* running and has not suspended yet; while it names one, no other         *)
(* coroutine takes a step.  A handler whose first statement takes the lock *)
(* is started by the action that commits under the lock: waiting for the   *)
(* lock before anything was read is the same as receiving later.           *)
(***************************************************************************)
EXTENDS Integers, Sequences, FiniteSets, TLC

\* ---------------------------------------------------------------- bounds
\* registry._next_peer_id is unbounded: the clients of Spec are served while it is
\* at most MaxPeerId, those of SpecJoin, SpecLobby and SpecReaper while it is at
\* most MaxJoinPeerId, MaxLobbyPeerId and MaxReaperPeerId (none above MaxPeerId)
MaxPeerId == 4
MaxJoinPeerId == 3
MaxLobbyPeerId == 2
MaxReaperPeerId == 2
MaxDirectoryPeerId == 2
\* the clock advances at most MaxTicks times
MaxTicks == 1

\* prune_stale_rooms: stale_after_seconds
StaleAfter == 60

Conns == {"c1", "c2"}
None == "none"

\* connection slots are interchangeable: they are first used in this order
Earlier(c) == IF c = "c1" THEN {} ELSE {"c1"}
PeerIds == 1..MaxPeerId
RoomIds == {"r1", "r2"}
Topologies == {"mesh", "server_authoritative"}
RequestedCapacities == {1, 2, 3}
RoomTagLists == {<<>>, <<"a">>}
FilterTagLists == {<<>>, <<" a", "">>}

\* message types the loop does not know
UnknownTypes == {"ping"}

VARIABLES
    rooms,          \* registry.rooms: room_id -> Room (NoRoom when absent)
    peers,          \* registry.peers: peer_id -> PeerSession (NoSession when absent)
    lobby_subscriptions, \* registry.lobby_subscriptions: connection -> subscription
    next_peer_id,   \* registry._next_peer_id
    lock,           \* registry.lock: the connection holding it, None when free
    current,        \* the coroutine running in the event loop, None when all are suspended
    now,            \* time.time()
    sock_open,      \* per connection: the client side of the websocket is open
    pc,             \* per connection: position of websocket_endpoint
    peer_id,        \* per connection: the loop's peer_id local (0 is None)
    h,              \* per connection: locals of the handler being run
    reaper,         \* locals of prune_stale_rooms
    sent,           \* the messages written to sockets by the last step
    ready_count,    \* per room_id: match_ready broadcasts since membership last changed
    closed_seen,    \* per connection: was sent room_closed and has not joined since
    tasks           \* the gathers whose send tasks are scheduled and have not run, oldest
                    \* first: the coroutine in the gather, and the recipients whose
                    \* subscription is still the one the lobby delta was computed for

vars == <<rooms, peers, lobby_subscriptions, next_peer_id, lock, current, now,
          sock_open, pc, peer_id, h, reaper, sent, ready_count, closed_seen, tasks>>

\* ------------------------------------------------------------ entity model
NoRoom ==
    [host_id |-> 0, topology |-> "mesh", capacity |-> 0, is_sealed |-> FALSE,
     peer_ids |-> {}, connected_ack |-> {}, tags |-> <<>>, last_activity |-> 0]

NoSession == [websocket |-> None, room_id |-> ""]

NoSubscription == [subscribed |-> FALSE, filter_tags |-> {}]

Room(host_id, topology, capacity, tags) ==
    [host_id |-> host_id, topology |-> topology, capacity |-> capacity,
     is_sealed |-> FALSE, peer_ids |-> {}, connected_ack |-> {}, tags |-> tags,
     last_activity |-> now]

PeerSession(websocket, room_id) == [websocket |-> websocket, room_id |-> room_id]

LobbySubscription(filter_tags) == [subscribed |-> TRUE, filter_tags |-> filter_tags]

update_activity(room) == [room EXCEPT !.last_activity = now]

is_full(room) == room.capacity > 0 /\ Cardinality(room.peer_ids) >= room.capacity

\* ---------------------------------------------------------------- messages
NoMsg ==
    [type |-> "", peer_id |-> 0, host_id |-> 0, topology |-> "", capacity |-> 0,
     room_id |-> "", op |-> "", message |-> "", lobbies |-> <<>>]

ErrorMsg(message) == [NoMsg EXCEPT !.type = "error", !.message = message]

IdAssignedMsg(pid, host_id, topology, capacity) ==
    [NoMsg EXCEPT !.type = "id_assigned", !.peer_id = pid, !.host_id = host_id,
                  !.topology = topology, !.capacity = capacity]

PeerJoinedMsg(pid) == [NoMsg EXCEPT !.type = "peer_joined", !.peer_id = pid]

PeerLeftMsg(pid) == [NoMsg EXCEPT !.type = "peer_left", !.peer_id = pid]

RoomClosedMsg == [NoMsg EXCEPT !.type = "room_closed"]

MatchReadyMsg == [NoMsg EXCEPT !.type = "match_ready"]

SignalMsg(from_id) == [NoMsg EXCEPT !.type = "signal", !.peer_id = from_id]

\* one write to a socket: the connection, the peer it is addressed to as a member of
\* a room (0 when it is addressed to the connection itself), and the payload
Wire(to, member, msg) == [to |-> to, member |-> member, msg |-> msg]

\* ------------------------------------------------------------ handler locals
NoLocals ==
    [room_id |-> "", pid |-> 0, host_id |-> 0, topology |-> "", capacity |-> 0,
     notify |-> {}, out |-> {}, full |-> FALSE, message |-> "", target |-> 0,
     to |-> None]

ReaperIdle == [pc |-> "sleep", stale |-> <<>>, out |-> {}]

\* ------------------------------------------------------------------- helpers
Range(seq) == {seq[i] : i \in DOMAIN seq}

Min(S) == CHOOSE x \in S : \A y \in S : x <= y

\* str.strip() on the tag strings of the model
Strip(s) == IF s = " a" THEN "a" ELSE s

_normalize_filter_tags(raw_tags) == {Strip(raw_tags[i]) : i \in DOMAIN raw_tags} \ {""}

\* handle_join: topology is server_authoritative only when the message says so
ParseTopology(raw) == IF raw = "server_authoritative" THEN "server_authoritative" ELSE "mesh"

\* the capacity taken as requested
ClampCapacityAsRequested(capacity) == capacity

\* handle_join: capacity = max(2, capacity)
ClampCapacity(capacity) == IF capacity < 2 THEN 2 ELSE capacity

room_to_lobby(room_id, room) ==
    [room_id |-> room_id, topology |-> room.topology,
     players |-> Cardinality(room.peer_ids), capacity |-> room.capacity,
     tags |-> room.tags]

\* visibility decided by the tags alone
VisibleByTagsAlone(room, filter_tags) ==
    filter_tags = {} \/ filter_tags \subseteq Range(room.tags)

_is_room_visible_to_filter(room, filter_tags) ==
    IF room.is_sealed \/ is_full(room) THEN FALSE
    ELSE IF filter_tags # {} /\ ~(filter_tags \subseteq Range(room.tags)) THEN FALSE
    ELSE TRUE

\* registry.rooms keeps insertion order; rooms are inserted when created, and the
\* creator's fresh peer id is the host_id, so insertion order is host_id order
RECURSIVE RoomsInOrder(_)
RoomsInOrder(S) ==
    IF S = {} THEN <<>>
    ELSE LET first == CHOOSE r \in S : \A q \in S : rooms[r].host_id <= rooms[q].host_id
         IN <<first>> \o RoomsInOrder(S \ {first})

ExistingRooms == {r \in RoomIds : rooms[r] # NoRoom}

RECURSIVE SnapshotOf(_, _)
SnapshotOf(order, filter_tags) ==
    IF order = <<>> THEN <<>>
    ELSE (IF _is_room_visible_to_filter(rooms[Head(order)], filter_tags)
          THEN <<room_to_lobby(Head(order), rooms[Head(order)])>> ELSE <<>>)
         \o SnapshotOf(Tail(order), filter_tags)

_build_lobby_snapshot(filter_tags) == SnapshotOf(RoomsInOrder(ExistingRooms), filter_tags)

LobbyListMsg(lobbies) == [NoMsg EXCEPT !.type = "lobby_list", !.lobbies = lobbies]

LobbySnapshotMsg(lobbies) == [NoMsg EXCEPT !.type = "lobby_snapshot", !.lobbies = lobbies]

LobbyDeltaMsg(room_id, room, filter_tags) ==
    IF room # NoRoom /\ _is_room_visible_to_filter(room, filter_tags)
    THEN [NoMsg EXCEPT !.type = "lobby_delta", !.op = "upsert", !.room_id = room_id,
                       !.lobbies = <<room_to_lobby(room_id, room)>>]
    ELSE [NoMsg EXCEPT !.type = "lobby_delta", !.op = "remove", !.room_id = room_id]

\* the payloads computed without the subscribers' filters
LobbyDeltasUnfiltered(room_id) ==
    {Wire(c, 0, LobbyDeltaMsg(room_id, rooms[room_id], {})) :
        c \in {d \in Conns : lobby_subscriptions[d].subscribed}}

\* notify_lobby_room_changed: the payloads computed for the subscriptions read
\* under the lock (the tasks that send them run later)
lobby_deltas(room_id) ==
    {Wire(c, 0, LobbyDeltaMsg(room_id, rooms[room_id], lobby_subscriptions[c].filter_tags)) :
        c \in {d \in Conns : lobby_subscriptions[d].subscribed}}

\* broadcast_room: one send task per member that has a session in registry.peers
broadcast_room(room, sessions, payload) ==
    {Wire(sessions[p].websocket, p, payload) :
        p \in {q \in room.peer_ids : sessions[q] # NoSession}}

\* a send on a socket whose client side is closed raises; gather(return_exceptions)
\* swallows it, so a fan-out writes to the open sockets only
Delivered(out) == {w \in out : sock_open[w.to]}

MarkClosed(delivered) ==
    [c \in Conns |->
        closed_seen[c] \/ \E w \in delivered : w.to = c /\ w.msg.type = "room_closed"]

JoinStages == {"join_lobby", "join_lobby_send", "join_id", "join_peers", "join_check"}

\* a room object taken out of registry.rooms is never mutated again: the handlers
\* of handle_join that still hold it read is_full as it was when it was removed
\* (removed: room_id -> the room object as it was removed)
FreezeRemoved(locals, removed) ==
    [c \in Conns |->
        IF pc[c] \in JoinStages /\ locals[c].room_id \in DOMAIN removed
           /\ locals[c].host_id = removed[locals[c].room_id].host_id
        THEN [locals[c] EXCEPT !.full = is_full(removed[locals[c].room_id])]
        ELSE locals[c]]

\* room.is_full read through the handler's reference to the room object
HeldRoomIsFull(c) ==
    IF rooms[h[c].room_id].host_id = h[c].host_id
    THEN is_full(rooms[h[c].room_id])
    ELSE h[c].full


\* ---------------------------------------------------------------- initial state
Init ==
    /\ rooms = [r \in RoomIds |-> NoRoom]
    /\ peers = [p \in PeerIds |-> NoSession]
    /\ lobby_subscriptions = [c \in Conns |-> NoSubscription]
    /\ next_peer_id = 1
    /\ lock = None
    /\ current = None
    /\ now = 0
    /\ sock_open = [c \in Conns |-> FALSE]
    /\ pc = [c \in Conns |-> "absent"]
    /\ peer_id = [c \in Conns |-> 0]
    /\ h = [c \in Conns |-> NoLocals]
    /\ reaper = ReaperIdle
    /\ sent = {}
    /\ ready_count = [r \in RoomIds |-> 0]
    /\ closed_seen = [c \in Conns |-> FALSE]
    /\ tasks = <<>>

\* ------------------------------------------------------- the connection's loop
\* the coroutine of connection c may take a step
Runs(c) == current = c \/ current = None

\* the handler returns to the loop, which suspends in receive; a join that ran to
\* its end returns the new id
Return(c) ==
    /\ pc' = [pc EXCEPT ![c] = "recv"]
    /\ peer_id' = [peer_id EXCEPT ![c] = IF h[c].pid # 0 THEN h[c].pid ELSE @]
    /\ h' = [h EXCEPT ![c] = NoLocals]
    /\ current' = None

\* an exception leaves the handler: the loop's except branch runs the cleanup with
\* the peer_id the loop holds
Raise(c) ==
    /\ pc' = [pc EXCEPT ![c] = "cleanup"]
    /\ h' = [h EXCEPT ![c] = NoLocals]
    /\ current' = c
    /\ UNCHANGED peer_id

\* the handler goes on to its next statement without suspending
Goto(c, label) ==
    /\ pc' = [pc EXCEPT ![c] = label]
    /\ current' = c
    /\ UNCHANGED peer_id

\* the handler suspends (in a send it has written, or in a gather) before label
Suspend(c, label) ==
    /\ pc' = [pc EXCEPT ![c] = label]
    /\ current' = None
    /\ UNCHANGED peer_id

\* asyncio.create_task: the send tasks of a gather are scheduled behind the tasks
\* scheduled before them, and the event loop runs scheduled tasks in that order
Scheduled(t, live) == Append(tasks, [by |-> t, live |-> live])

\* the send tasks of t's gather are the next scheduled tasks to run
TasksRun(t) == current = None /\ tasks # <<>> /\ Head(tasks).by = t

\* the subscription of connection d is replaced or removed
SubscriptionGone(d) == [i \in DOMAIN tasks |-> [tasks[i] EXCEPT !.live = @ \ {d}]]

Subscribers == {d \in Conns : lobby_subscriptions[d].subscribed}

\* send_json / send_error to one socket, awaited by the handler itself: the write,
\* then Then (which suspends); a closed socket raises
SendTo(c, to, member, msg, Then) ==
    IF sock_open[to]
    THEN /\ sent' = {Wire(to, member, msg)}
         /\ Then
    ELSE /\ sent' = {}
         /\ Raise(c)

\* an error reply of the loop itself, after which the loop receives again
ReplyError(c, message) ==
    SendTo(c, c, 0, ErrorMsg(message),
           /\ current' = None
           /\ UNCHANGED <<pc, peer_id, h>>)

\* ------------------------------------------------- the loop's own error replies
\* a message that is not join, list_lobbies, subscribe_lobbies or
\* unsubscribe_lobbies, received while the loop's peer_id is None
join_required(c, message_type) ==
    /\ pc[c] = "recv"
    /\ Runs(c)
    /\ message_type \in {"signal", "peer_connected"} \cup UnknownTypes
    /\ peer_id[c] = 0
    /\ ReplyError(c, "join_required")
    /\ UNCHANGED <<rooms, peers, lobby_subscriptions, next_peer_id, lock, now, sock_open,
                   reaper, ready_count, closed_seen, tasks>>

\* the else branch of the dispatch, reached when the loop holds a peer_id
unknown_message_type(c, message_type) ==
    /\ pc[c] = "recv"
    /\ Runs(c)
    /\ message_type \in UnknownTypes
    /\ peer_id[c] # 0
    /\ ReplyError(c, "unknown_message_type:" \o message_type)
    /\ UNCHANGED <<rooms, peers, lobby_subscriptions, next_peer_id, lock, now, sock_open,
                   reaper, ready_count, closed_seen, tasks>>

\* ------------------------------------------------------------------ handle_join
JoinLookup(room_id, pid, is_host_intent, topology, capacity, tags) ==
    IF rooms[room_id] = NoRoom
    THEN IF is_host_intent THEN Room(pid, topology, capacity, tags) ELSE NoRoom
    ELSE rooms[room_id]

\* the checks with the room's occupancy looked at before its topology
handle_join_errorOccupancyFirst(room_id, pid, is_host_intent, topology, room) ==
    IF rooms[room_id] = NoRoom /\ ~is_host_intent THEN "room_not_found"
    ELSE IF room.is_sealed \/ is_full(room) THEN "room_unavailable"
    ELSE IF rooms[room_id] # NoRoom /\ topology # rooms[room_id].topology
         THEN "topology_mismatch"
    ELSE IF is_host_intent /\ room.host_id # pid THEN "host_already_exists"
    ELSE ""

handle_join_error(room_id, pid, is_host_intent, topology, room) ==
    IF rooms[room_id] = NoRoom /\ ~is_host_intent THEN "room_not_found"
    ELSE IF rooms[room_id] # NoRoom /\ topology # rooms[room_id].topology
         THEN "topology_mismatch"
    ELSE IF room.is_sealed \/ is_full(room) THEN "room_unavailable"
    ELSE IF is_host_intent /\ room.host_id # pid THEN "host_already_exists"
    ELSE ""

JoinAdd(room, pid) ==
    LET joined == [update_activity(room) EXCEPT !.peer_ids = @ \cup {pid}]
    IN IF is_full(joined) THEN [joined EXCEPT !.is_sealed = TRUE] ELSE joined

JoinNotifyPeers(room, pid) ==
    LET existing_peers == room.peer_ids \ {pid}
    IN IF room.topology = "mesh" THEN existing_peers
       ELSE IF room.host_id \in existing_peers THEN {room.host_id} ELSE {}

handle_join_room_id_required(c) ==
    /\ pc[c] = "recv"
    /\ Runs(c)
    /\ ReplyError(c, "room_id_required")
    /\ UNCHANGED <<rooms, peers, lobby_subscriptions, next_peer_id, lock, now, sock_open,
                   reaper, ready_count, closed_seen>>
    /\ UNCHANGED tasks

handle_join(c, room_id, is_host_intent, raw_topology, raw_capacity, tags) ==
    /\ pc[c] = "recv"
    /\ Runs(c)
    /\ lock = None
    /\ LET pid == next_peer_id
           topology == ParseTopology(raw_topology)
           capacity == ClampCapacity(raw_capacity)
           room == JoinLookup(room_id, pid, is_host_intent, topology, capacity, tags)
           err == handle_join_error(room_id, pid, is_host_intent, topology, room)
       IN /\ next_peer_id' = pid + 1
          /\ IF err # ""
             THEN /\ rooms' = IF err \in {"room_not_found", "topology_mismatch"}
                              THEN rooms ELSE [rooms EXCEPT ![room_id] = room]
                  /\ lock' = c
                  /\ Goto(c, "locked_error")
                  /\ h' = [h EXCEPT ![c] = [NoLocals EXCEPT !.message = err]]
                  /\ UNCHANGED <<peers, ready_count, closed_seen>>
             ELSE /\ rooms' = [rooms EXCEPT ![room_id] = JoinAdd(room, pid)]
                  /\ peers' = [peers EXCEPT ![pid] = PeerSession(c, room_id)]
                  /\ lock' = None
                  /\ Goto(c, "join_lobby")
                  /\ h' = [h EXCEPT ![c] =
                             [NoLocals EXCEPT !.room_id = room_id, !.pid = pid,
                                              !.host_id = room.host_id,
                                              !.topology = room.topology,
                                              !.capacity = room.capacity,
                                              !.notify = JoinNotifyPeers(JoinAdd(room, pid), pid)]]
                  /\ ready_count' = [ready_count EXCEPT ![room_id] = 0]
                  /\ closed_seen' = [closed_seen EXCEPT ![c] = FALSE]
    /\ sent' = {}
    /\ UNCHANGED <<lobby_subscriptions, now, sock_open, reaper>>
    /\ UNCHANGED tasks

\* send_error awaited inside "async with registry.lock" (handle_join, handle_signal):
\* the handler is suspended in the send with the lock held
locked_error_send(c) ==
    /\ pc[c] = "locked_error"
    /\ Runs(c)
    /\ IF sock_open[c]
       THEN /\ sent' = {Wire(c, 0, ErrorMsg(h[c].message))}
            /\ Suspend(c, "locked_error_sent")
            /\ UNCHANGED <<lock, h>>
       ELSE /\ sent' = {}
            /\ lock' = None
            /\ Raise(c)
    /\ UNCHANGED <<rooms, peers, lobby_subscriptions, next_peer_id, now, sock_open,
                   reaper, ready_count, closed_seen>>
    /\ UNCHANGED tasks

\* the send returns: the "async with" block is left, and the handler returns
locked_error_return(c) ==
    /\ pc[c] = "locked_error_sent"
    /\ Runs(c)
    /\ lock' = None
    /\ Return(c)
    /\ sent' = {}
    /\ UNCHANGED <<rooms, peers, lobby_subscriptions, next_peer_id, now, sock_open,
                   reaper, ready_count, closed_seen>>
    /\ UNCHANGED tasks

\* notify_lobby_room_changed(room_id) called by handle_join
join_notify_lobby(c) ==
    /\ pc[c] = "join_lobby"
    /\ Runs(c)
    /\ lock = None
    /\ LET out == lobby_deltas(h[c].room_id)
       IN /\ h' = [h EXCEPT ![c].out = out]
          /\ IF out = {} THEN Goto(c, "join_id") ELSE Suspend(c, "join_lobby_send")
          /\ tasks' = IF out = {} THEN tasks ELSE Scheduled(c, Subscribers)
    /\ sent' = {}
    /\ UNCHANGED <<rooms, peers, lobby_subscriptions, next_peer_id, lock, now, sock_open,
                   reaper, ready_count, closed_seen>>

\* the send tasks of the gather run
join_lobby_send(c) ==
    /\ pc[c] = "join_lobby_send"
    /\ TasksRun(c)
    /\ tasks' = Tail(tasks)
    /\ sent' = Delivered(h[c].out)
    /\ h' = [h EXCEPT ![c].out = {}]
    /\ Suspend(c, "join_id")
    /\ UNCHANGED <<rooms, peers, lobby_subscriptions, next_peer_id, lock, now, sock_open,
                   reaper, ready_count, closed_seen>>

JoinAfterSend(c, notify) ==
    /\ h' = [h EXCEPT ![c].notify = notify]
    /\ Suspend(c, IF notify # {} THEN "join_peers" ELSE "join_check")

join_id_assigned(c) ==
    /\ pc[c] = "join_id"
    /\ Runs(c)
    /\ SendTo(c, c, 0,
              IdAssignedMsg(h[c].pid, h[c].host_id, h[c].topology, h[c].capacity),
              JoinAfterSend(c, h[c].notify))
    /\ UNCHANGED <<rooms, peers, lobby_subscriptions, next_peer_id, lock, now, sock_open,
                   reaper, ready_count, closed_seen>>
    /\ UNCHANGED tasks

\* one turn of "for existing_peer_id in notify_peer_ids" (a set of small ints is
\* iterated in ascending order)
join_peer_joined(c) ==
    /\ pc[c] = "join_peers"
    /\ Runs(c)
    /\ LET p == Min(h[c].notify)
           rest == h[c].notify \ {p}
       IN IF peers[p] = NoSession
          THEN /\ sent' = {}
               /\ h' = [h EXCEPT ![c].notify = rest]
               /\ Goto(c, IF rest # {} THEN "join_peers" ELSE "join_check")
          ELSE SendTo(c, peers[p].websocket, p, PeerJoinedMsg(h[c].pid),
                      JoinAfterSend(c, rest))
    /\ UNCHANGED <<rooms, peers, lobby_subscriptions, next_peer_id, lock, now, sock_open,
                   reaper, ready_count, closed_seen>>
    /\ UNCHANGED tasks

\* "if room.is_full: await maybe_emit_match_ready(room_id)", then "return peer_id"
join_check_full(c) ==
    /\ pc[c] = "join_check"
    /\ Runs(c)
    /\ IF HeldRoomIsFull(c)
       THEN /\ Goto(c, "match_ready")
            /\ UNCHANGED h
       ELSE Return(c)
    /\ sent' = {}
    /\ UNCHANGED <<rooms, peers, lobby_subscriptions, next_peer_id, lock, now, sock_open,
                   reaper, ready_count, closed_seen>>
    /\ UNCHANGED tasks

\* -------------------------------------------------------- maybe_emit_match_ready
MatchReadyDue(room) ==
    /\ room # NoRoom
    /\ is_full(room)
    /\ ~(Cardinality(room.connected_ack) < Cardinality(room.peer_ids))

maybe_emit_match_ready(c) ==
    /\ pc[c] = "match_ready"
    /\ Runs(c)
    /\ lock = None
    /\ LET room_id == h[c].room_id
           room == rooms[room_id]
           out == broadcast_room(room, peers, MatchReadyMsg)
       IN IF MatchReadyDue(room)
          THEN /\ rooms' = [rooms EXCEPT ![room_id] = update_activity(room)]
               /\ ready_count' = [ready_count EXCEPT ![room_id] = IF @ < 2 THEN @ + 1 ELSE @]
               /\ IF out = {}
                  THEN /\ Return(c)
                       /\ UNCHANGED tasks
                  ELSE /\ h' = [h EXCEPT ![c].out = out]
                       /\ Suspend(c, "match_ready_send")
                       /\ tasks' = Scheduled(c, {})
          ELSE /\ Return(c)
               /\ UNCHANGED <<rooms, ready_count, tasks>>
    /\ sent' = {}
    /\ UNCHANGED <<peers, lobby_subscriptions, next_peer_id, lock, now, sock_open,
                   reaper, closed_seen>>

\* the send tasks of broadcast_room run; the handler returns when they are done
match_ready_send(c) ==
    /\ pc[c] = "match_ready_send"
    /\ TasksRun(c)
    /\ tasks' = Tail(tasks)
    /\ sent' = Delivered(h[c].out)
    /\ Return(c)
    /\ UNCHANGED <<rooms, peers, lobby_subscriptions, next_peer_id, lock, now, sock_open,
                   reaper, ready_count, closed_seen>>

\* ---------------------------------------------------------------- handle_signal
\* target_id == 0: the sender's session is read without the lock
handle_signal_no_target(c) ==
    /\ pc[c] = "recv"
    /\ Runs(c)
    /\ peer_id[c] # 0
    /\ IF peers[peer_id[c]] # NoSession
       THEN SendTo(c, peers[peer_id[c]].websocket, 0, ErrorMsg("target_id_required"),
                   /\ current' = None
                   /\ UNCHANGED <<pc, peer_id, h>>)
       ELSE /\ sent' = {}
            /\ UNCHANGED <<pc, peer_id, h, current>>
    /\ UNCHANGED <<rooms, peers, lobby_subscriptions, next_peer_id, lock, now, sock_open,
                   reaper, ready_count, closed_seen>>
    /\ UNCHANGED tasks

SignalOutcome(source_session, target_session) ==
    IF source_session = NoSession \/ target_session = NoSession THEN "drop"
    ELSE IF source_session.room_id # target_session.room_id THEN "cross_room"
    ELSE IF rooms[source_session.room_id] = NoRoom THEN "drop"
    ELSE "relay"

handle_signal(c, target_id) ==
    /\ pc[c] = "recv"
    /\ Runs(c)
    /\ peer_id[c] # 0
    /\ lock = None
    /\ LET source_session == peers[peer_id[c]]
           target_session == peers[target_id]
           outcome == SignalOutcome(source_session, target_session)
       IN CASE outcome = "drop" ->
                 UNCHANGED <<rooms, lock, pc, peer_id, h, current>>
            [] outcome = "cross_room" ->
                 /\ lock' = c
                 /\ Goto(c, "locked_error")
                 /\ h' = [h EXCEPT ![c] =
                            [NoLocals EXCEPT !.message = "cross_room_signal_blocked"]]
                 /\ UNCHANGED rooms
            [] outcome = "relay" ->
                 /\ rooms' = [rooms EXCEPT ![source_session.room_id] = update_activity(@)]
                 /\ Goto(c, "signal_send")
                 /\ h' = [h EXCEPT ![c] =
                            [NoLocals EXCEPT !.room_id = source_session.room_id,
                                             !.target = target_id,
                                             !.to = target_session.websocket]]
                 /\ UNCHANGED lock
    /\ sent' = {}
    /\ UNCHANGED <<peers, lobby_subscriptions, next_peer_id, now, sock_open, reaper,
                   ready_count, closed_seen>>
    /\ UNCHANGED tasks

\* "await send_json(target_session.websocket, relay_payload)", outside the lock;
\* target_session is the session object read under the lock
signal_send(c) ==
    /\ pc[c] = "signal_send"
    /\ Runs(c)
    /\ SendTo(c, h[c].to, h[c].target, SignalMsg(peer_id[c]), Return(c))
    /\ UNCHANGED <<rooms, peers, lobby_subscriptions, next_peer_id, lock, now, sock_open,
                   reaper, ready_count, closed_seen>>
    /\ UNCHANGED tasks

\* -------------------------------------------------------- handle_peer_connected
handle_peer_connected(c) ==
    /\ pc[c] = "recv"
    /\ Runs(c)
    /\ peer_id[c] # 0
    /\ lock = None
    /\ LET session == peers[peer_id[c]]
       IN IF session = NoSession \/ rooms[session.room_id] = NoRoom
          THEN UNCHANGED <<rooms, pc, peer_id, h, current>>
          ELSE /\ rooms' = [rooms EXCEPT ![session.room_id] =
                               [update_activity(@) EXCEPT
                                   !.connected_ack = @ \cup {peer_id[c]}]]
               /\ Goto(c, "match_ready")
               /\ h' = [h EXCEPT ![c] = [NoLocals EXCEPT !.room_id = session.room_id]]
    /\ sent' = {}
    /\ UNCHANGED <<peers, lobby_subscriptions, next_peer_id, lock, now, sock_open,
                   reaper, ready_count, closed_seen>>
    /\ UNCHANGED tasks

\* --------------------------------------------------------------- lobby directory
handle_list_lobbies(c, raw_tags) ==
    /\ pc[c] = "recv"
    /\ Runs(c)
    /\ lock = None
    /\ LET lobbies == _build_lobby_snapshot(_normalize_filter_tags(raw_tags))
       IN h' = [h EXCEPT ![c] =
                   [NoLocals EXCEPT !.out = {Wire(c, 0, LobbyListMsg(lobbies)),
                                             Wire(c, 0, LobbySnapshotMsg(lobbies))}]]
    /\ Goto(c, "reply")
    /\ sent' = {}
    /\ UNCHANGED <<rooms, peers, lobby_subscriptions, next_peer_id, lock, now, sock_open,
                   reaper, ready_count, closed_seen>>
    /\ UNCHANGED tasks

handle_subscribe_lobbies(c, raw_tags) ==
    /\ pc[c] = "recv"
    /\ Runs(c)
    /\ lock = None
    /\ LET filter_tags == _normalize_filter_tags(raw_tags)
       IN /\ lobby_subscriptions' =
                 [lobby_subscriptions EXCEPT ![c] = LobbySubscription(filter_tags)]
          /\ tasks' = SubscriptionGone(c)
          /\ h' = [h EXCEPT ![c] =
                     [NoLocals EXCEPT !.out =
                         {Wire(c, 0, LobbySnapshotMsg(_build_lobby_snapshot(filter_tags)))}]]
    /\ Goto(c, "reply")
    /\ sent' = {}
    /\ UNCHANGED <<rooms, peers, next_peer_id, lock, now, sock_open, reaper,
                   ready_count, closed_seen>>

\* the snapshots computed under the lock are sent to the requester one after the
\* other, lobby_list before lobby_snapshot
reply_send(c) ==
    /\ pc[c] = "reply"
    /\ Runs(c)
    /\ LET first == CHOOSE w \in h[c].out :
                        \/ w.msg.type = "lobby_list"
                        \/ \A v \in h[c].out : v.msg.type # "lobby_list"
           rest == h[c].out \ {first}
       IN IF sock_open[c]
          THEN /\ sent' = {first}
               /\ IF rest = {}
                  THEN Return(c)
                  ELSE /\ h' = [h EXCEPT ![c].out = rest]
                       /\ Suspend(c, "reply")
          ELSE /\ sent' = {}
               /\ Raise(c)
    /\ UNCHANGED <<rooms, peers, lobby_subscriptions, next_peer_id, lock, now, sock_open,
                   reaper, ready_count, closed_seen>>
    /\ UNCHANGED tasks

\* the subscription left in the registry
KeepSubscription(c) == lobby_subscriptions

\* registry.lobby_subscriptions.pop(connection_id, None)
PopSubscription(c) == [lobby_subscriptions EXCEPT ![c] = NoSubscription]

handle_unsubscribe_lobbies(c) ==
    /\ pc[c] = "recv"
    /\ Runs(c)
    /\ lock = None
    /\ lobby_subscriptions' = PopSubscription(c)
    /\ tasks' = SubscriptionGone(c)
    /\ sent' = {}
    /\ UNCHANGED <<rooms, peers, next_peer_id, lock, current, now, sock_open, pc, peer_id,
                   h, reaper, ready_count, closed_seen>>

\* ------------------------------------------------------------ handle_disconnect
\* the loop leaves through one of its except branches
Leaving(c) == pc[c] = "cleanup" \/ (pc[c] = "recv" /\ ~sock_open[c])

disconnect_without_peer(c) ==
    /\ Leaving(c)
    /\ Runs(c)
    /\ peer_id[c] = 0
    /\ Goto(c, "unsubscribe")
    /\ sent' = {}
    /\ UNCHANGED <<rooms, peers, lobby_subscriptions, next_peer_id, lock, now, sock_open,
                   h, reaper, ready_count, closed_seen>>
    /\ UNCHANGED tasks

\* the departed peer left in the member set
DisconnectRoomKeepsMember(room, pid) ==
    [update_activity(room) EXCEPT !.connected_ack = @ \ {pid}]

DisconnectRoom(room, pid) ==
    [update_activity(room) EXCEPT !.peer_ids = @ \ {pid}, !.connected_ack = @ \ {pid}]

\* the room of a departed host kept while it has members
DisconnectKeepsUnlessEmpty(room, pid) ==
    ~(Cardinality(room.peer_ids) = 0)

DisconnectKeeps(room, pid) ==
    ~(pid = room.host_id \/ Cardinality(room.peer_ids) = 0)

handle_disconnect(c) ==
    /\ Leaving(c)
    /\ Runs(c)
    /\ peer_id[c] # 0
    /\ lock = None
    /\ LET pid == peer_id[c]
           session == peers[pid]
           sessions == [peers EXCEPT ![pid] = NoSession]
       IN /\ peers' = sessions
          /\ IF session = NoSession \/ rooms[session.room_id] = NoRoom
             THEN /\ Goto(c, "unsubscribe")
                  /\ UNCHANGED <<rooms, h, ready_count, tasks>>
             ELSE LET room_id == session.room_id
                      room == DisconnectRoom(rooms[room_id], pid)
                      host_disconnected == pid = room.host_id
                      out == IF host_disconnected
                             THEN broadcast_room(room, sessions, RoomClosedMsg)
                             ELSE IF room.peer_ids # {}
                             THEN broadcast_room(room, sessions, PeerLeftMsg(pid))
                             ELSE {}
                  IN /\ rooms' = [rooms EXCEPT ![room_id] =
                                     IF DisconnectKeeps(room, pid)
                                     THEN [room EXCEPT !.is_sealed = FALSE]
                                     ELSE NoRoom]
                     /\ h' = [IF DisconnectKeeps(room, pid) THEN h
                              ELSE FreezeRemoved(h, room_id :> room)
                                EXCEPT ![c] = [NoLocals EXCEPT !.room_id = room_id,
                                                               !.out = out]]
                     /\ IF out = {} THEN Goto(c, "disconnect_lobby")
                        ELSE Suspend(c, "disconnect_send")
                     /\ tasks' = IF out = {} THEN tasks ELSE Scheduled(c, {})
                     /\ ready_count' =
                           [ready_count EXCEPT ![room_id] =
                               IF ~DisconnectKeeps(room, pid) \/ pid \in rooms[room_id].peer_ids
                               THEN 0 ELSE @]
    /\ sent' = {}
    /\ UNCHANGED <<lobby_subscriptions, next_peer_id, lock, now, sock_open, reaper,
                   closed_seen>>

\* the send tasks of broadcast_room run
disconnect_send(c) ==
    /\ pc[c] = "disconnect_send"
    /\ TasksRun(c)
    /\ tasks' = Tail(tasks)
    /\ sent' = Delivered(h[c].out)
    /\ closed_seen' = MarkClosed(Delivered(h[c].out))
    /\ h' = [h EXCEPT ![c].out = {}]
    /\ Suspend(c, "disconnect_lobby")
    /\ UNCHANGED <<rooms, peers, lobby_subscriptions, next_peer_id, lock, now, sock_open,
                   reaper, ready_count>>

\* notify_lobby_room_changed(room.room_id) called by handle_disconnect
disconnect_notify_lobby(c) ==
    /\ pc[c] = "disconnect_lobby"
    /\ Runs(c)
    /\ lock = None
    /\ LET out == lobby_deltas(h[c].room_id)
       IN /\ h' = [h EXCEPT ![c].out = out]
          /\ IF out = {} THEN Goto(c, "unsubscribe")
             ELSE Suspend(c, "disconnect_lobby_send")
          /\ tasks' = IF out = {} THEN tasks ELSE Scheduled(c, Subscribers)
    /\ sent' = {}
    /\ UNCHANGED <<rooms, peers, lobby_subscriptions, next_peer_id, lock, now, sock_open,
                   reaper, ready_count, closed_seen>>

disconnect_lobby_send(c) ==
    /\ pc[c] = "disconnect_lobby_send"
    /\ TasksRun(c)
    /\ tasks' = Tail(tasks)
    /\ sent' = Delivered(h[c].out)
    /\ h' = [h EXCEPT ![c].out = {}]
    /\ Suspend(c, "unsubscribe")
    /\ UNCHANGED <<rooms, peers, lobby_subscriptions, next_peer_id, lock, now, sock_open,
                   reaper, ready_count, closed_seen>>

\* "await handle_unsubscribe_lobbies(connection_id)" ends the except branch, and
\* with it websocket_endpoint: the socket is closed
disconnect_unsubscribe(c) ==
    /\ pc[c] = "unsubscribe"
    /\ Runs(c)
    /\ lock = None
    /\ lobby_subscriptions' = PopSubscription(c)
    /\ tasks' = SubscriptionGone(c)
    /\ pc' = [pc EXCEPT ![c] = "done"]
    /\ current' = None
    /\ peer_id' = [peer_id EXCEPT ![c] = 0]
    /\ h' = [h EXCEPT ![c] = NoLocals]
    /\ sock_open' = [sock_open EXCEPT ![c] = FALSE]
    /\ sent' = {}
    /\ UNCHANGED <<rooms, peers, next_peer_id, lock, now, reaper, ready_count, closed_seen>>

\* ------------------------------------------------------------ prune_stale_rooms
\* rooms counted stale from the threshold on
StaleRoomsAtThreshold ==
    {r \in ExistingRooms : now - rooms[r].last_activity >= StaleAfter}

StaleRooms == {r \in ExistingRooms : now - rooms[r].last_activity > StaleAfter}

ReaperNext(rest) ==
    IF rest = <<>> THEN ReaperIdle ELSE [ReaperIdle EXCEPT !.pc = "notify", !.stale = rest]

prune_stale_rooms ==
    /\ reaper.pc = "sleep"
    /\ current = None
    /\ lock = None
    /\ LET stale == StaleRooms
           gone == UNION {rooms[r].peer_ids : r \in stale}
       IN /\ rooms' = [r \in RoomIds |-> IF r \in stale THEN NoRoom ELSE rooms[r]]
          /\ peers' = [p \in PeerIds |-> IF p \in gone THEN NoSession ELSE peers[p]]
          /\ h' = FreezeRemoved(h, [r \in stale |-> rooms[r]])
          /\ ready_count' = [r \in RoomIds |-> IF r \in stale THEN 0 ELSE ready_count[r]]
          /\ reaper' = ReaperNext(RoomsInOrder(stale))
          /\ current' = IF stale = {} THEN None ELSE "reaper"
    /\ sent' = {}
    /\ UNCHANGED <<lobby_subscriptions, next_peer_id, lock, now, sock_open, pc, peer_id,
                   closed_seen>>
    /\ UNCHANGED tasks

\* notify_lobby_room_changed(room_id) for the next pruned room
prune_notify_lobby ==
    /\ reaper.pc = "notify"
    /\ current \in {None, "reaper"}
    /\ lock = None
    /\ LET out == lobby_deltas(Head(reaper.stale))
           rest == Tail(reaper.stale)
       IN IF out = {}
          THEN /\ reaper' = ReaperNext(rest)
               /\ current' = IF rest = <<>> THEN None ELSE "reaper"
               /\ UNCHANGED tasks
          ELSE /\ reaper' = [reaper EXCEPT !.pc = "send", !.out = out]
               /\ current' = None
               /\ tasks' = Scheduled("reaper", Subscribers)
    /\ sent' = {}
    /\ UNCHANGED <<rooms, peers, lobby_subscriptions, next_peer_id, lock, now, sock_open,
                   pc, peer_id, h, ready_count, closed_seen>>

prune_lobby_send ==
    /\ reaper.pc = "send"
    /\ TasksRun("reaper")
    /\ tasks' = Tail(tasks)
    /\ sent' = Delivered(reaper.out)
    /\ reaper' = ReaperNext(Tail(reaper.stale))
    /\ UNCHANGED <<rooms, peers, lobby_subscriptions, next_peer_id, lock, current, now,
                   sock_open, pc, peer_id, h, ready_count, closed_seen>>

\* ------------------------------------------------------------------- scheduling
\* the positions whose next statement is "async with registry.lock"
AtLock(t) ==
    \/ pc[t] \in {"join_lobby", "match_ready", "disconnect_lobby", "unsubscribe"}
    \/ (pc[t] = "cleanup" /\ peer_id[t] # 0)

\* the running coroutine finds the lock held and suspends in acquire
lock_wait(t) ==
    /\ current = t
    /\ lock # None
    /\ AtLock(t)
    /\ current' = None
    /\ sent' = {}
    /\ UNCHANGED <<rooms, peers, lobby_subscriptions, next_peer_id, lock, now, sock_open,
                   pc, peer_id, h, reaper, ready_count, closed_seen>>
    /\ UNCHANGED tasks

\* ------------------------------------------------------------------ environment
\* time.time() advances, by the staleness threshold or by more than it at once
Tick ==
    /\ current = None
    /\ \E elapsed \in {StaleAfter, StaleAfter + 1} :
          /\ now + elapsed <= MaxTicks * (StaleAfter + 1)
          /\ now' = now + elapsed
    /\ sent' = {}
    /\ UNCHANGED <<rooms, peers, lobby_subscriptions, next_peer_id, lock, current,
                   sock_open, pc, peer_id, h, reaper, ready_count, closed_seen>>
    /\ UNCHANGED tasks

\* the client closes its side: sends to the socket raise from now on, and a
\* receive of the loop returns the messages the client sent before it closed, if
\* any, and then raises WebSocketDisconnect
ClientClose(c) ==
    /\ current = None
    /\ pc[c] \notin {"absent", "done"}
    /\ sock_open[c]
    /\ sock_open' = [sock_open EXCEPT ![c] = FALSE]
    /\ sent' = {}
    /\ UNCHANGED <<rooms, peers, lobby_subscriptions, next_peer_id, lock, current, now,
                   pc, peer_id, h, reaper, ready_count, closed_seen>>
    /\ UNCHANGED tasks

\* websocket_endpoint is entered for a new connection; the model reuses the slot of
\* a finished connection once no session and no scheduled send refers to the
\* finished one's socket
Accept(c) ==
    /\ current = None
    /\ \/ pc[c] = "absent" /\ \A d \in Earlier(c) : pc[d] # "absent"
       \/ /\ pc[c] = "done"
          /\ \A p \in PeerIds : peers[p].websocket # c
          /\ \A d \in Conns : \A w \in h[d].out \cup reaper.out : w.to # c
    /\ pc' = [pc EXCEPT ![c] = "recv"]
    /\ sock_open' = [sock_open EXCEPT ![c] = TRUE]
    /\ closed_seen' = [closed_seen EXCEPT ![c] = FALSE]
    /\ sent' = {}
    /\ UNCHANGED <<rooms, peers, lobby_subscriptions, next_peer_id, lock, current, now,
                   peer_id, h, reaper, ready_count>>
    /\ UNCHANGED tasks

\* ----------------------------------------------------------------- specification
\* the steps of the server that no client input selects (the sends of match_ready
\* need acknowledgements, those of lobby deltas need subscribers)
ServerStep ==
    \/ \E c \in Conns : locked_error_send(c)
    \/ \E c \in Conns : locked_error_return(c)
    \/ \E c \in Conns : join_notify_lobby(c)
    \/ \E c \in Conns : join_id_assigned(c)
    \/ \E c \in Conns : join_peer_joined(c)
    \/ \E c \in Conns : join_check_full(c)
    \/ \E c \in Conns : maybe_emit_match_ready(c)
    \/ \E c \in Conns : disconnect_without_peer(c)
    \/ \E c \in Conns : handle_disconnect(c)
    \/ \E c \in Conns : disconnect_send(c)
    \/ \E c \in Conns : disconnect_notify_lobby(c)
    \/ \E c \in Conns : disconnect_unsubscribe(c)
    \/ \E c \in Conns : ClientClose(c)
    \/ \E c \in Conns : Accept(c)

\* the steps a handler that has started takes by itself; at most one is enabled for a
\* connection at a time
Progress(c) ==
    \/ locked_error_send(c)
    \/ locked_error_return(c)
    \/ join_notify_lobby(c)
    \/ join_lobby_send(c)
    \/ join_id_assigned(c)
    \/ join_peer_joined(c)
    \/ join_check_full(c)
    \/ maybe_emit_match_ready(c)
    \/ match_ready_send(c)
    \/ signal_send(c)
    \/ reply_send(c)
    \/ disconnect_without_peer(c)
    \/ handle_disconnect(c)
    \/ disconnect_send(c)
    \/ disconnect_notify_lobby(c)
    \/ disconnect_lobby_send(c)
    \/ disconnect_unsubscribe(c)
    \/ lock_wait(c)

ReaperProgress == prune_stale_rooms \/ prune_notify_lobby \/ prune_lobby_send

\* the event loop runs ready coroutines and scheduled tasks in turn, so a step that
\* is ready again and again is taken: no coroutine starves
Fairness == (\A c \in Conns : SF_vars(Progress(c))) /\ SF_vars(ReaperProgress)

\* clients that play in one room id: joins, signals, acknowledgements, departures
Next ==
    \/ \E c \in Conns : handle_join_room_id_required(c)
    \/ \E c \in Conns, is_host_intent \in BOOLEAN, raw_topology \in Topologies,
          raw_capacity \in {1, 2} :
          /\ next_peer_id <= MaxPeerId
          /\ handle_join(c, "r1", is_host_intent, raw_topology, raw_capacity, <<>>)
    \/ \E c \in Conns, message_type \in {"signal", "peer_connected"} \cup UnknownTypes :
          join_required(c, message_type)
    \/ \E c \in Conns, message_type \in UnknownTypes : unknown_message_type(c, message_type)
    \/ \E c \in Conns : handle_signal_no_target(c)
    \/ \E c \in Conns, target_id \in PeerIds : handle_signal(c, target_id)
    \/ \E c \in Conns : signal_send(c)
    \/ \E c \in Conns : handle_peer_connected(c)
    \/ \E c \in Conns : match_ready_send(c)
    \/ \E c \in Conns : lock_wait(c)
    \/ ServerStep

Spec == Init /\ [][Next]_vars

\* clients that join and leave one room id, with every topology string and capacity
NextJoin ==
    \/ \E c \in Conns : handle_join_room_id_required(c)
    \/ \E c \in Conns, is_host_intent \in BOOLEAN,
          raw_topology \in Topologies \cup {"star"},
          raw_capacity \in RequestedCapacities :
          /\ next_peer_id <= MaxJoinPeerId
          /\ handle_join(c, "r1", is_host_intent, raw_topology, raw_capacity, <<>>)
    \/ \E c \in Conns : lock_wait(c)
    \/ ServerStep

SpecJoin == Init /\ [][NextJoin]_vars

\* clients that browse the lobby directory while a tagged room fills and empties
NextLobby ==
    \/ \E c \in Conns, is_host_intent \in BOOLEAN, tags \in RoomTagLists :
          /\ next_peer_id <= MaxLobbyPeerId
          /\ handle_join(c, "r1", is_host_intent, "mesh", 2, tags)
    \/ \E c \in Conns : join_lobby_send(c)
    \/ \E c \in Conns, raw_tags \in FilterTagLists : handle_list_lobbies(c, raw_tags)
    \/ \E c \in Conns, raw_tags \in FilterTagLists : handle_subscribe_lobbies(c, raw_tags)
    \/ \E c \in Conns : reply_send(c)
    \/ \E c \in Conns : handle_unsubscribe_lobbies(c)
    \/ \E c \in Conns : disconnect_lobby_send(c)
    \/ \E c \in Conns : lock_wait(c)
    \/ ServerStep

SpecLobby == Init /\ [][NextLobby]_vars

\* clients whose rooms go stale under the eyes of a subscriber, the second
\* connection
NextReaper ==
    \/ \E c \in Conns, room_id \in RoomIds, is_host_intent \in BOOLEAN :
          /\ next_peer_id <= MaxReaperPeerId
          /\ handle_join(c, room_id, is_host_intent, "mesh", 2, <<>>)
    \/ \E c \in Conns : join_lobby_send(c)
    \/ handle_subscribe_lobbies("c2", <<>>)
    \/ \E c \in Conns : reply_send(c)
    \/ \E c \in Conns : disconnect_lobby_send(c)
    \/ prune_stale_rooms
    \/ prune_notify_lobby
    \/ prune_lobby_send
    \/ Tick
    \/ \E c \in Conns : lock_wait(c)
    \/ ServerStep

SpecReaper == Init /\ [][NextReaper]_vars /\ Fairness

\* clients that subscribe to the lobby directory with a tag filter while a room,
\* tagged or not, fills, empties, closes and goes stale
NextDirectory ==
    \/ \E c \in Conns, is_host_intent \in BOOLEAN, tags \in RoomTagLists :
          /\ next_peer_id <= MaxDirectoryPeerId
          /\ handle_join(c, "r1", is_host_intent, "mesh", 2, tags)
    \/ \E c \in Conns : join_lobby_send(c)
    \/ \E c \in Conns, raw_tags \in FilterTagLists \ {<<>>} :
          handle_subscribe_lobbies(c, raw_tags)
    \/ \E c \in Conns : reply_send(c)
    \/ \E c \in Conns : handle_unsubscribe_lobbies(c)
    \/ \E c \in Conns : disconnect_lobby_send(c)
    \/ prune_stale_rooms
    \/ prune_notify_lobby
    \/ prune_lobby_send
    \/ Tick
    \/ \E c \in Conns : lock_wait(c)
    \/ ServerStep

SpecDirectory == Init /\ [][NextDirectory]_vars /\ Fairness

\* ----------------------------------------------------------------------- claims
\* C1: in every reachable state every room of the registry is sealed exactly when
\* the number of its members equals its capacity
C1_SealedIffFull ==
    \A r \in ExistingRooms :
        rooms[r].is_sealed <=> Cardinality(rooms[r].peer_ids) = rooms[r].capacity

\* C2: in every reachable state every room of the registry has a capacity of at
\* least 2 and at most capacity members
C2_CapacityBounds ==
    \A r \in ExistingRooms :
        /\ rooms[r].capacity >= 2
        /\ Cardinality(rooms[r].peer_ids) <= rooms[r].capacity

\* a join finds the room at its capacity and is about to be refused
C2_Witness ==
    \E c \in Conns, r \in ExistingRooms :
        /\ pc[c] = "locked_error"
        /\ h[c].message = "room_unavailable"
        /\ Cardinality(rooms[r].peer_ids) = rooms[r].capacity

\* C3: once the connection of a room's host has ended, the room is no longer in
\* the registry
C3_HostEndRemovesRoom ==
    \A r \in ExistingRooms :
        LET host == peers[rooms[r].host_id]
        IN host # NoSession => pc[host.websocket] # "done"

\* C4: in every reachable state every session of registry.peers names a room that
\* is in the registry and has the session's peer among its members
C4_SessionsInRooms ==
    \A p \in PeerIds :
        peers[p] # NoSession =>
            /\ rooms[peers[p].room_id] # NoRoom
            /\ p \in rooms[peers[p].room_id].peer_ids

\* the cleanup of connection c is about to take a member that is not the host out
\* of a full, sealed room
NonHostLeavesFull(c) ==
    /\ Leaving(c)
    /\ peer_id[c] # 0
    /\ peers[peer_id[c]] # NoSession
    /\ LET room == rooms[peers[peer_id[c]].room_id]
       IN /\ room # NoRoom
          /\ peer_id[c] \in room.peer_ids
          /\ peer_id[c] # room.host_id
          /\ is_full(room)
          /\ room.is_sealed

\* a join without host intent that names the room's topology would be accepted
JoinAccepted(room_id) ==
    /\ rooms[room_id] # NoRoom
    /\ handle_join_error(room_id, next_peer_id, FALSE, rooms[room_id].topology,
                         rooms[room_id]) = ""

\* C5: when a member that is not the host leaves a full, sealed room, the room stays
\* in the registry unsealed without the member, peer_left with the member's id is
\* addressed to each remaining member and to nobody else, and the next join
\* without host intent that names the room's topology is accepted
C5_NonHostLeaveUnseals ==
    [][\A c \in Conns, pid \in PeerIds, room_id \in RoomIds :
          (/\ NonHostLeavesFull(c)
           /\ pid = peer_id[c]
           /\ room_id = peers[pid].room_id
           /\ handle_disconnect(c)) =>
              LET remaining == rooms[room_id].peer_ids \ {pid}
              IN /\ rooms'[room_id] # NoRoom
                 /\ ~rooms'[room_id].is_sealed
                 /\ rooms'[room_id].peer_ids = remaining
                 /\ h'[c].out =
                        {Wire(peers[q].websocket, q, PeerLeftMsg(pid)) : q \in remaining}
                 /\ JoinAccepted(room_id)'
      ]_vars

\* a member that joined after the host has left a room that was full: peer_left is
\* about to be sent, and the room is unsealed, one member short of its capacity
C5_Witness ==
    \E c \in Conns :
        /\ pc[c] = "disconnect_send"
        /\ rooms[h[c].room_id] # NoRoom
        /\ ~rooms[h[c].room_id].is_sealed
        /\ Cardinality(rooms[h[c].room_id].peer_ids) + 1 = rooms[h[c].room_id].capacity
        /\ \E w \in h[c].out :
              /\ w.msg.type = "peer_left"
              /\ w.msg.peer_id > rooms[h[c].room_id].host_id

\* C6: match_ready is broadcast to a room at most once while its membership is
\* unchanged
C6_MatchReadyOnce == \A r \in RoomIds : ready_count[r] <= 1

\* C7: when match_ready is broadcast, the room is full and every member of the room
\* has acknowledged
C7_ReadyNeedsAllMembers ==
    [][\A c \in Conns :
          (maybe_emit_match_ready(c) /\ MatchReadyDue(rooms[h[c].room_id])) =>
              /\ is_full(rooms[h[c].room_id])
              /\ rooms[h[c].room_id].peer_ids \subseteq rooms[h[c].room_id].connected_ack
      ]_vars

\* C8: when the relay of a signal is committed, sender and target are both members
\* of the room the signal is relayed in
C8_RelayBetweenMembers ==
    [][\A c \in Conns, target_id \in PeerIds :
          (/\ handle_signal(c, target_id)
           /\ SignalOutcome(peers[peer_id[c]], peers[target_id]) = "relay") =>
              /\ peer_id[c] \in rooms[peers[target_id].room_id].peer_ids
              /\ target_id \in rooms[peers[target_id].room_id].peer_ids
      ]_vars

\* the connection has a session that is a member of a room of the registry
InSomeRoom(c) ==
    \E r \in ExistingRooms : \E p \in rooms[r].peer_ids : peers[p].websocket = c

\* C9: no signal is written to a connection that was sent room_closed and has not
\* joined a room since (a connection that is a member of a room has joined)
C9_NoSignalAfterRoomClosed ==
    \A w \in sent : w.msg.type = "signal" => ~closed_seen[w.to] \/ InSomeRoom(w.to)

\* the entry describes a room of the registry that is neither sealed nor full and
\* carries every tag of the filter
EntryVisible(entry, filter_tags) ==
    /\ rooms[entry.room_id] # NoRoom
    /\ ~rooms[entry.room_id].is_sealed
    /\ Cardinality(rooms[entry.room_id].peer_ids) < rooms[entry.room_id].capacity
    /\ filter_tags \subseteq Range(rooms[entry.room_id].tags)

\* C10: every entry of a lobby_list, of a lobby_snapshot and of an upsert
\* lobby_delta describes, in the state it is computed in, a room that is neither
\* sealed nor full and carries every tag of the recipient's filter
C10_LobbyEntriesVisible ==
    [][/\ \A c \in Conns, raw_tags \in FilterTagLists :
             (handle_list_lobbies(c, raw_tags) \/ handle_subscribe_lobbies(c, raw_tags)) =>
                 \A w \in h'[c].out : \A i \in DOMAIN w.msg.lobbies :
                     EntryVisible(w.msg.lobbies[i], _normalize_filter_tags(raw_tags))
       /\ \A c \in Conns :
             (join_notify_lobby(c) \/ disconnect_notify_lobby(c)) =>
                 \A w \in h'[c].out : \A i \in DOMAIN w.msg.lobbies :
                     EntryVisible(w.msg.lobbies[i], lobby_subscriptions[w.to].filter_tags)
      ]_vars

\* an upsert delta for a room is about to be sent to a subscriber that filters by
\* a tag
C10_Witness ==
    \E c \in Conns :
        /\ pc[c] \in {"join_lobby_send", "disconnect_lobby_send"}
        /\ \E w \in h[c].out :
              /\ w.msg.op = "upsert"
              /\ lobby_subscriptions[w.to].filter_tags # {}

\* a handler has committed a change of room r and has not yet read the
\* subscriptions for its lobby delta
NotifyDue(r) ==
    \/ \E c \in Conns :
          /\ pc[c] \in {"join_lobby", "disconnect_send", "disconnect_lobby"}
          /\ h[c].room_id = r
    \/ reaper.pc = "notify" /\ r \in Range(reaper.stale)
    \/ reaper.pc = "send" /\ r \in Range(Tail(reaper.stale))

\* a coroutine other than t has committed a change of room r and the lobby delta
\* of that change is not written yet
NotifyOutstanding(t, r) ==
    \/ \E c \in Conns \ {t} :
          /\ pc[c] \in {"join_lobby", "join_lobby_send", "disconnect_send",
                        "disconnect_lobby", "disconnect_lobby_send"}
          /\ h[c].room_id = r
    \/ t # "reaper" /\ reaper.pc \in {"notify", "send"} /\ r \in Range(reaper.stale)

\* msg is the lobby_delta that describes room r of the registry to a subscriber
\* with this filter: an upsert with the room's summary when the room exists, is
\* neither sealed nor full and carries every tag of the filter, a remove otherwise
DeltaDescribes(msg, r, filter_tags) ==
    /\ msg.type = "lobby_delta"
    /\ msg.room_id = r
    /\ IF /\ rooms[r] # NoRoom
          /\ ~rooms[r].is_sealed
          /\ Cardinality(rooms[r].peer_ids) < rooms[r].capacity
          /\ filter_tags \subseteq Range(rooms[r].tags)
       THEN /\ msg.op = "upsert"
            /\ msg.lobbies =
                  <<[room_id |-> r, topology |-> rooms[r].topology,
                     players |-> Cardinality(rooms[r].peer_ids),
                     capacity |-> rooms[r].capacity, tags |-> rooms[r].tags]>>
       ELSE /\ msg.op = "remove"
            /\ msg.lobbies = <<>>

\* out holds, for room r, one delta for each subscriber and nothing else, each
\* describing the room to its subscriber
DeltasForAll(out, r) ==
    /\ \A d \in Subscribers :
          \E w \in out :
              /\ w.to = d
              /\ DeltaDescribes(w.msg, r, lobby_subscriptions[d].filter_tags)
    /\ \A w \in out : w.to \in Subscribers
    /\ Cardinality(out) = Cardinality(Subscribers)

\* the deltas written to recipients whose subscription is the one they were
\* computed for describe room r, unless a later change of r is yet to be notified
DeltasCurrent(t, r, delivered) ==
    NotifyOutstanding(t, r) \/
        \A w \in delivered :
            w.to \in Head(tasks).live =>
                DeltaDescribes(w.msg, r, lobby_subscriptions[w.to].filter_tags)

DeltaWritten(d, r) ==
    \E w \in sent : w.to = d /\ w.msg.type = "lobby_delta" /\ w.msg.room_id = r

\* C11: after a committed change of a room (join accepted, member left, room closed
\* by its host's departure, room pruned) the deltas computed for it are one per
\* subscriber, an upsert with the room's summary for a subscriber the room is
\* visible to and a remove otherwise; a delta for the room is eventually written to
\* each connection subscribed at the commit, unless it unsubscribes or its socket
\* closes; and the delta written when no later change of the room awaits its
\* notification describes the room as it is
C11_SubscribersNotified ==
    /\ [][/\ \A c \in Conns :
                (join_notify_lobby(c) \/ disconnect_notify_lobby(c)) =>
                    DeltasForAll(h'[c].out, h[c].room_id)
          /\ prune_notify_lobby => DeltasForAll(reaper'.out, Head(reaper.stale))
          /\ \A c \in Conns :
                (join_lobby_send(c) \/ disconnect_lobby_send(c)) =>
                    DeltasCurrent(c, h[c].room_id, sent')
          /\ prune_lobby_send => DeltasCurrent("reaper", Head(reaper.stale), sent')
         ]_vars
    /\ \A d \in Conns, r \in RoomIds :
          (NotifyDue(r) /\ d \in Subscribers) ~>
              (DeltaWritten(d, r) \/ d \notin Subscribers \/ ~sock_open[d])

\* a remove delta for a room closed by its host's departure is about to be written
\* to a subscriber whose socket is open
C11_Witness ==
    \E c \in Conns :
        /\ pc[c] = "disconnect_lobby_send"
        /\ rooms[h[c].room_id] = NoRoom
        /\ \E w \in h[c].out :
              /\ w.msg.op = "remove"
              /\ w.to \in Head(tasks).live
              /\ sock_open[w.to]

\* room r has had no activity for longer than the staleness threshold
Untouched(r) == rooms[r] # NoRoom /\ now - rooms[r].last_activity > StaleAfter

\* the reaper has removed room r and has not yet read the subscriptions for its delta
PrunedUnnotified(r) ==
    \/ reaper.pc = "notify" /\ r \in Range(reaper.stale)
    \/ reaper.pc = "send" /\ r \in Range(Tail(reaper.stale))

RemoveWritten(d, r) ==
    \E w \in sent :
        /\ w.to = d
        /\ w.msg = [NoMsg EXCEPT !.type = "lobby_delta", !.op = "remove", !.room_id = r]

\* C12: a pass of the reaper removes every room that has had no activity for longer
\* than the staleness threshold, together with the sessions of its members, and
\* leaves every other room as it is; the delta it computes for a removed room that
\* has not been created again is a remove for each subscriber; under fair scheduling
\* a room does not stay untouched for longer than the threshold, and a remove delta
\* for a pruned room is eventually written to each subscriber, unless it
\* unsubscribes, its socket closes or the room is created again
C12_StaleRoomsReaped ==
    /\ [][/\ prune_stale_rooms =>
                \A r \in ExistingRooms :
                    IF now - rooms[r].last_activity > StaleAfter
                    THEN /\ rooms'[r] = NoRoom
                         /\ \A p \in rooms[r].peer_ids : peers'[p] = NoSession
                    ELSE /\ rooms'[r] = rooms[r]
                         /\ \A p \in rooms[r].peer_ids : peers'[p] = peers[p]
          /\ (prune_notify_lobby /\ rooms[Head(reaper.stale)] = NoRoom) =>
                /\ \A d \in Subscribers : \E w \in reaper'.out : w.to = d
                /\ \A w \in reaper'.out :
                      /\ w.to \in Subscribers
                      /\ w.msg.type = "lobby_delta"
                      /\ w.msg.op = "remove"
                      /\ w.msg.room_id = Head(reaper.stale)
         ]_vars
    /\ \A r \in RoomIds : Untouched(r) ~> ~Untouched(r)
    /\ \A d \in Conns, r \in RoomIds :
          (PrunedUnnotified(r) /\ d \in Subscribers) ~>
              \/ RemoveWritten(d, r)
              \/ d \notin Subscribers
              \/ ~sock_open[d]
              \/ rooms[r] # NoRoom

\* the reaper has pruned a room whose member's connection is still open and
\* receiving, and a remove delta is about to be written to a subscriber
C12_Witness ==
    /\ reaper.pc = "send"
    /\ \E w \in reaper.out : w.msg.op = "remove" /\ sock_open[w.to]
    /\ \E c \in Conns :
          /\ pc[c] = "recv"
          /\ sock_open[c]
          /\ peer_id[c] # 0
          /\ peers[peer_id[c]] = NoSession

\* C13: once the loop of a connection has ended, no session created by a join on
\* that connection (a session holds the websocket it was created on) is in
\* registry.peers
C13_NoSessionAfterLoopEnd ==
    \A p \in PeerIds : peers[p] # NoSession => pc[peers[p].websocket] # "done"

\* C14: a connection whose loop has ended or has not begun has no subscription;
\* subscribe_lobbies leaves the connection subscribed and unsubscribe_lobbies leaves
\* it without a subscription; nothing but the connection's own subscribe_lobbies,
\* unsubscribe_lobbies and cleanup changes its subscription; and the deltas of a
\* room change are computed for connections that are subscribed at that time only
C14_SubscriptionLifetime ==
    /\ [](\A c \in Conns : pc[c] \in {"absent", "done"} => c \notin Subscribers)
    /\ [][\A c \in Conns :
             /\ (\E raw_tags \in FilterTagLists : handle_subscribe_lobbies(c, raw_tags)) =>
                    lobby_subscriptions'[c].subscribed
             /\ handle_unsubscribe_lobbies(c) => ~lobby_subscriptions'[c].subscribed
             /\ lobby_subscriptions'[c] # lobby_subscriptions[c] =>
                    \/ \E raw_tags \in FilterTagLists : handle_subscribe_lobbies(c, raw_tags)
                    \/ handle_unsubscribe_lobbies(c)
                    \/ disconnect_unsubscribe(c)
             /\ (join_notify_lobby(c) \/ disconnect_notify_lobby(c)) =>
                    \A w \in h'[c].out : w.to \in Subscribers
         ]_vars

\* the cleanup of a connection that joined a room and subscribed is about to remove
\* its subscription while the other connection is subscribed too
C14_Witness ==
    \E c \in Conns, d \in Conns :
        /\ c # d
        /\ pc[c] = "unsubscribe"
        /\ peer_id[c] # 0
        /\ c \in Subscribers
        /\ d \in Subscribers

\* C15: when the send that relays a signal of a connection whose own socket is open
\* fails because the socket of the target, another connection, is closed, the
\* sender's loop goes on to receive, and the sender's session and the rooms are as
\* they were
C15_RelayFailureNotSurfaced ==
    [][\A c \in Conns :
          (signal_send(c) /\ sock_open[c] /\ h[c].to # c /\ ~sock_open[h[c].to]) =>
              /\ pc'[c] = "recv"
              /\ peers'[peer_id[c]] = peers[peer_id[c]]
              /\ rooms' = rooms
      ]_vars

\* C16: a message of a type the loop does not know, received on an open socket
\* before or after a join, is answered with the error unknown_message_type:<type>;
\* the registry is as it was and the loop goes on to receive
C16_UnknownTypeAnswered ==
    [][\A c \in Conns, message_type \in UnknownTypes :
          (/\ join_required(c, message_type) \/ unknown_message_type(c, message_type)
           /\ sock_open[c]) =>
              /\ sent' = {Wire(c, 0, ErrorMsg("unknown_message_type:" \o message_type))}
              /\ pc'[c] = "recv"
              /\ <<rooms, peers, lobby_subscriptions>>' =
                     <<rooms, peers, lobby_subscriptions>>
      ]_vars

\* the members of room r, other than pid, that an accepted join of pid announces
\* pid to: all of them in a mesh room, the host alone in a server_authoritative one
Announced(r, pid) ==
    IF rooms[r].topology = "mesh" THEN rooms[r].peer_ids \ {pid}
    ELSE (rooms[r].peer_ids \cap {rooms[r].host_id}) \ {pid}

\* C17: an accepted join into a room that exists answers the joiner, when its socket
\* is open, with id_assigned carrying its peer_id and the room's host_id, topology
\* and capacity; peer_joined with the joiner's id is written to members it is to be
\* announced to and to nobody else; and while the joiner's socket is open the
\* handler does not end before every member it is to be announced to that has a
\* session and an open socket has been sent it
C17_JoinAnnounced ==
    [][\A c \in Conns :
          /\ \A is_host_intent \in BOOLEAN, raw_topology \in Topologies \cup {"star"},
                raw_capacity \in RequestedCapacities, pid \in PeerIds :
                (/\ handle_join(c, "r1", is_host_intent, raw_topology, raw_capacity, <<>>)
                 /\ pid = next_peer_id
                 /\ rooms["r1"] # NoRoom
                 /\ pc'[c] = "join_lobby") =>
                    /\ h'[c].pid = pid
                    /\ pid \in rooms'["r1"].peer_ids
                    /\ h'[c].notify = Announced("r1", pid)'
                    /\ h'[c].host_id = rooms'["r1"].host_id
                    /\ h'[c].topology = rooms'["r1"].topology
                    /\ h'[c].capacity = rooms'["r1"].capacity
          /\ (join_id_assigned(c) /\ sock_open[c]) =>
                /\ sent' = {Wire(c, 0, IdAssignedMsg(h[c].pid, h[c].host_id, h[c].topology,
                                                     h[c].capacity))}
                /\ h'[c].notify = h[c].notify
          /\ (join_peer_joined(c) /\ sock_open[c]) =>
                /\ \A w \in sent' :
                      /\ w.msg = PeerJoinedMsg(h[c].pid)
                      /\ w.member \in h[c].notify \ {h[c].pid}
                      /\ w.to = peers[w.member].websocket
                /\ pc'[c] # "join_peers" =>
                      \A q \in h[c].notify :
                          \/ peers[q] = NoSession
                          \/ ~sock_open[peers[q].websocket]
                          \/ \E w \in sent' : w.member = q
      ]_vars

\* C18: no message is written to a socket while the registry lock is held, and no
\* handler is suspended in a send with the lock
C18_NoSendUnderLock ==
    /\ sent # {} => lock = None
    /\ \A c \in Conns : pc[c] = "locked_error_sent" => lock # c

\* C19: a connection that was sent room_closed and has not joined a room since is
\* not sent id_assigned or peer_joined: these announce joins that were committed
\* before the room was closed
C19_NoAnnouncementAfterClose ==
    \A w \in sent : w.msg.type \in {"id_assigned", "peer_joined"} => ~closed_seen[w.to]

\* C20: a fan-out whose send to one recipient fails on a closed socket still writes
\* the event to every other recipient with an open socket, and does not end the
\* connection that triggered it: the sends gathered by broadcast_room and
\* notify_lobby_room_changed write to every open socket of the batch and the handler
\* goes on, and a turn of the peer_joined loop of a join whose own socket is open
\* does not take the joiner's loop to its cleanup
C20_FanOutFailureIsolated ==
    [][\A c \in Conns :
          /\ (join_lobby_send(c) \/ match_ready_send(c)) =>
                /\ \A w \in h[c].out : sock_open[w.to] => w \in sent'
                /\ pc'[c] # "cleanup"
          /\ (disconnect_send(c) \/ disconnect_lobby_send(c)) =>
                \A w \in h[c].out : sock_open[w.to] => w \in sent'
          /\ (join_peer_joined(c) /\ sock_open[c]) => pc'[c] # "cleanup"
      ]_vars

\* C21: in every room of the registry the peers that acknowledged their connection
\* are members of the room
C21_AckedAreMembers ==
    \A r \in RoomIds : rooms[r] # NoRoom => rooms[r].connected_ack \subseteq rooms[r].peer_ids

\* C22: every room of the registry has members, its host is one of them and has a
\* session in registry.peers that names the room; and a room keeps its host_id for
\* as long as it stays in the registry
C22_HostedRooms ==
    /\ [](\A r \in RoomIds :
             rooms[r] # NoRoom =>
                 /\ rooms[r].peer_ids # {}
                 /\ rooms[r].host_id \in rooms[r].peer_ids
                 /\ peers[rooms[r].host_id] # NoSession
                 /\ peers[rooms[r].host_id].room_id = r)
    /\ [][\A r \in RoomIds :
             (rooms[r] # NoRoom /\ rooms'[r] # NoRoom) =>
                 rooms'[r].host_id = rooms[r].host_id]_vars

\* a room was created a second time under a new host while the session of a member
\* of its first life is still in the registry
C22_Witness ==
    \E r \in RoomIds, p \in PeerIds :
        /\ rooms[r] # NoRoom
        /\ peers[p] # NoSession
        /\ peers[p].room_id = r
        /\ p \notin rooms[r].peer_ids
        /\ p < rooms[r].host_id

JoinErrors == {"room_not_found", "topology_mismatch", "room_unavailable",
               "host_already_exists"}

\* the error a join message for room_id is rejected with, "" when it is accepted:
\* a room that does not exist is not found unless the join asks to host; for a room
\* that exists the topology is compared first, then the seal and the occupancy,
\* then the host intent, which only the room's host could carry
Rejection(room_id, is_host_intent, raw_topology) ==
    LET room == rooms[room_id]
        requested == IF raw_topology = "server_authoritative"
                     THEN "server_authoritative" ELSE "mesh"
    IN IF room = NoRoom THEN (IF is_host_intent THEN "" ELSE "room_not_found")
       ELSE IF requested # room.topology THEN "topology_mismatch"
       ELSE IF room.is_sealed \/ Cardinality(room.peer_ids) >= room.capacity
            THEN "room_unavailable"
       ELSE IF is_host_intent THEN "host_already_exists"
       ELSE ""

\* rooms, sessions, subscriptions and the loop's peer_id of every connection stay
\* as they are, and no lobby delta is scheduled
RegistryKept ==
    /\ rooms' = rooms
    /\ peers' = peers
    /\ lobby_subscriptions' = lobby_subscriptions
    /\ peer_id' = peer_id
    /\ tasks' = tasks

\* C23: a join is rejected with the first error that applies, in the order
\* room_id_required, room_not_found, topology_mismatch, room_unavailable,
\* host_already_exists, and no step of a rejected join, from the message to the
\* handler's return, changes a room, a session, a subscription or the connection's
\* peer_id, or writes anything but the error to the connection itself
C23_RejectedJoinChangesNothing ==
    [][\A c \in Conns :
          /\ (pc[c] = "recv" /\ next_peer_id' # next_peer_id) =>
              \A room_id \in RoomIds, is_host_intent \in BOOLEAN,
                raw_topology \in Topologies \cup {"star"},
                raw_capacity \in RequestedCapacities, tags \in RoomTagLists :
                handle_join(c, room_id, is_host_intent, raw_topology, raw_capacity, tags) =>
                    LET err == Rejection(room_id, is_host_intent, raw_topology)
                    IN /\ (err # "") <=> (pc'[c] = "locked_error")
                       /\ err # "" =>
                             /\ h'[c].message = err
                             /\ h'[c].pid = 0
                             /\ sent' = {}
                             /\ RegistryKept
          /\ handle_join_room_id_required(c) =>
                /\ sent' \subseteq {Wire(c, 0, ErrorMsg("room_id_required"))}
                /\ RegistryKept
          /\ (locked_error_send(c) /\ h[c].message \in JoinErrors) =>
                /\ sent' \subseteq {Wire(c, 0, ErrorMsg(h[c].message))}
                /\ RegistryKept
          /\ (locked_error_return(c) /\ h[c].message \in JoinErrors) =>
                /\ sent' = {}
                /\ pc'[c] = "recv"
                /\ RegistryKept
      ]_vars

\* a connection that hosts a room with a free place has asked to host it again:
\* host_already_exists is written to it and the handler has not yet returned
C23_Witness ==
    \E c \in Conns :
        /\ pc[c] = "locked_error_sent"
        /\ h[c].message = "host_already_exists"
        /\ peer_id[c] # 0
        /\ peers[peer_id[c]] # NoSession
        /\ rooms[peers[peer_id[c]].room_id] # NoRoom
        /\ rooms[peers[peer_id[c]].room_id].host_id = peer_id[c]
        /\ sent = {Wire(c, 0, ErrorMsg("host_already_exists"))}
=============================================================================
